---------------------------- MODULE Spec2Model ----------------------------
(***************************************************************************)
(* Model of app.py, the Airline Booking Market Demand Analyzer: a          *)
(* Streamlit script that, on a button press, fetches the cheapest fares    *)
(* from one Australian city to the seven others (memoized for an hour),    *)
(* asks a chat model for a summary, aggregates the fares per destination   *)
(* and renders two charts and the raw table.                               *)
(*                                                                         *)
(* The script is a sequential program that Streamlit re-runs from the top  *)
(* on every interaction.  pc is the position of the current run; trace is  *)
(* the log of what the run did that is visible from outside: page          *)
(* elements, calls of the two functions, HTTP requests.                    *)
(***************************************************************************)
EXTENDS Integers, Sequences, FiniteSets

(***************************************************************************)
(* Bounds of the model.                                                    *)
(***************************************************************************)
\* Clock advances the environment makes in one behaviour.
MaxAdvances == 2
\* Items one upstream response carries (the request asks for limit=50).
MaxItems == 2
\* Records one fetch collects in the function-level specification.
MaxFlights == 2
\* Rows of the tables the aggregation and insight specifications start from.
MaxRows == 3
\* Invocations of get_ai_insights in the insight specification.
MaxInvocations == 2

(***************************************************************************)
(* Program constants.                                                      *)
(***************************************************************************)
\* @st.cache_data(ttl=3600)
TTL == 3600

\* os.getenv of a variable that is not set.
NoneKey == "<None>"

AUSTRALIAN_CITIES ==
    << [name |-> "Sydney",     code |-> "SYD"],
       [name |-> "Melbourne",  code |-> "MEL"],
       [name |-> "Brisbane",   code |-> "BNE"],
       [name |-> "Perth",      code |-> "PER"],
       [name |-> "Adelaide",   code |-> "ADL"],
       [name |-> "Canberra",   code |-> "CBR"],
       [name |-> "Gold Coast", code |-> "OOL"],
       [name |-> "Cairns",     code |-> "CNS"] >>

\* list(AUSTRALIAN_CITIES.keys()) and AUSTRALIAN_CITIES.values(), as sets
CityNames == { AUSTRALIAN_CITIES[i].name : i \in DOMAIN AUSTRALIAN_CITIES }
CityCodes == { AUSTRALIAN_CITIES[i].code : i \in DOMAIN AUSTRALIAN_CITIES }

\* AUSTRALIAN_CITIES[selected_city_name]
CodeFor(name) ==
    AUSTRALIAN_CITIES[CHOOSE i \in DOMAIN AUSTRALIAN_CITIES :
                          AUSTRALIAN_CITIES[i].name = name].code

\* The city the upstream names for an airport code of the registry.
NameOf(code) ==
    AUSTRALIAN_CITIES[CHOOSE i \in DOMAIN AUSTRALIAN_CITIES :
                          AUSTRALIAN_CITIES[i].code = code].name

\* [code for code in AUSTRALIAN_CITIES.values() if code != origin_city_code]
Destinations(origin) ==
    SelectSeq([i \in DOMAIN AUSTRALIAN_CITIES |-> AUSTRALIAN_CITIES[i].code],
              LAMBDA code : code # origin)

(***************************************************************************)
(* Values.                                                                 *)
(***************************************************************************)
\* A Python None where a DataFrame is expected, a DataFrame of rows, and a
\* variable the run has not assigned yet.
None == [kind |-> "None", rows |-> << >>]
DataFrame(rows) == [kind |-> "DataFrame", rows |-> rows]
Unset == [kind |-> "unset", rows |-> << >>]

\* df is None or df.empty
IsNoneOrEmpty(df) == df.kind = "None" \/ df.rows = << >>

\* flight.get('airlines', ['N/A'])[0]
AirlineOf(flight) ==
    IF "airlines" \in DOMAIN flight THEN flight.airlines[1] ELSE "N/A"

\* datetime.fromtimestamp(flight['dTime']).strftime('%Y-%m-%d'): the calendar
\* day of the epoch second, as a day number.
DateOf(dTime) == dTime \div 86400

\* The dictionary appended to all_flights for one item of data['data'].
FlightRecord(flight) ==
    [ Origin          |-> flight.cityFrom,
      OriginCode      |-> flight.flyFrom,
      Destination     |-> flight.cityTo,
      DestinationCode |-> flight.flyTo,
      Price           |-> flight.price,
      Airline         |-> AirlineOf(flight),
      DepartureDate   |-> DateOf(flight.dTime) ]

RECURSIVE Records(_)
Records(items) ==
    IF items = << >> THEN << >>
    ELSE << FlightRecord(Head(items)) >> \o Records(Tail(items))

\* for flight in data['data']: all_flights.append({...})
AppendAll_overwrite(flights, items) == Records(items)

AppendAll(flights, items) == flights \o Records(items)

Event(ev, arg) == [ev |-> ev, arg |-> arg]

\* The page header every run renders before the button is looked at.
PageHeader == << Event("title", "Airline Booking Market Demand Analyzer"),
                 Event("markdown", << "An internal tool for Australian hostels to analyze flight demand trends." >>),
                 Event("sidebar.header", "Filter Options") >>

VARIABLES
    OPENAI_API_KEY,       \* the completion credential, read once at start
    now,                  \* wall clock, seconds
    advances,             \* clock advances made so far
    cache,                \* st.cache_data store of fetch_flight_data
    pc,                   \* position of the script run
    selected_city_name,   \* the selectbox value
    button,               \* what st.sidebar.button returned in this run
    origin_city_code,     \* fetch_flight_data's argument
    k,                    \* index of dest_code in destinations
    all_flights,          \* fetch_flight_data's accumulator
    received,             \* raw items the upstream has returned to this fetch
    flight_df,            \* the script's flight_df
    insights,             \* the script's insights (pieces of the text)
    agg_df,               \* the script's agg_df
    agg_df_sorted_by_count,
    trace                 \* what this run did: page elements, calls, requests

vars == << OPENAI_API_KEY, now, advances, cache, pc, selected_city_name,
           button, origin_city_code, k, all_flights, received, flight_df,
           insights, agg_df, agg_df_sorted_by_count, trace >>

(***************************************************************************)
(* The st.cache_data store: one entry per argument value, kept in a        *)
(* TTLCache.  An entry written at time t expires at t + ttl, and a lookup  *)
(* at time u finds it exactly when u < t + ttl.                            *)
(***************************************************************************)
NoEntry == [present |-> FALSE, value |-> None, expires |-> 0]

IsLive_inclusive(entry, t) == entry.present /\ t <= entry.expires

IsLive(entry, t) == entry.present /\ t < entry.expires

CacheStore_skipNone(c, key, value, t) ==
    IF value.kind = "None" THEN c
    ELSE [c EXCEPT ![key] = [present |-> TRUE, value |-> value, expires |-> t + TTL]]

CacheStore(c, key, value, t) ==
    [c EXCEPT ![key] = [present |-> TRUE, value |-> value, expires |-> t + TTL]]

(***************************************************************************)
(* What the flight-search API may answer to one GET.                       *)
(***************************************************************************)
SeqsUpTo(S, n) == UNION { [1..m -> S] : m \in 0..n }

\* requests.get or raise_for_status raises a RequestException
RequestException == [kind |-> "RequestException", data |-> << >>]
\* a JSON body with no 'data' key
NoDataKey == [kind |-> "nodata", data |-> << >>]
\* a JSON body whose 'data' list holds an item lacking a key the loop reads
BadItem == [kind |-> "KeyError", data |-> << >>]
\* a JSON body with a 'data' list
Data(items) == [kind |-> "data", data |-> items]

Item(origin, cityTo, flyTo, price) ==
    [ cityFrom |-> NameOf(origin), flyFrom |-> origin,
      cityTo |-> cityTo, flyTo |-> flyTo,
      price |-> price, airlines |-> << "QF" >>, dTime |-> 1780000000 ]

\* An item without the optional 'airlines' key.
ItemNoAirlines(origin, cityTo, flyTo, price) ==
    [ cityFrom |-> NameOf(origin), flyFrom |-> origin,
      cityTo |-> cityTo, flyTo |-> flyTo,
      price |-> price, dTime |-> 1780000000 ]

\* Any answer: the fare may be to the airport asked for, to another airport
\* (Avalon serves Melbourne and is no registry code), or back to the origin.
AnyItems(origin, dest) ==
    { Item(origin, NameOf(dest), dest, 100),
      ItemNoAirlines(origin, NameOf(dest), dest, 100),
      Item(origin, "Avalon", "AVV", 100),
      Item(origin, NameOf(origin), origin, 100) }

AnyResponses(origin, dest) ==
    { RequestException, NoDataKey, BadItem }
      \cup { Data(s) : s \in SeqsUpTo(AnyItems(origin, dest), MaxItems) }

\* The answers of the session-level specification: at most one fare, to the
\* airport asked for, and only on the routes of ServedRoutes.
ServedRoutes == { "SYD", "MEL", "BNE" }

SessionResponses(origin, dest) ==
    { RequestException, NoDataKey, BadItem, Data(<< >>) }
      \cup { Data(<< Item(origin, NameOf(dest), dest, p) >>) :
                p \in IF dest \in ServedRoutes THEN {100} ELSE {} }

(***************************************************************************)
(* fetch_flight_data                                                       *)
(***************************************************************************)
\* return <value> of the memoized function: the decorator stores the value
\* under the argument and hands it to the caller.
Return(value) ==
    /\ flight_df' = value
    /\ cache' = CacheStore(cache, origin_city_code, value, now)
    /\ pc' = "fetched"

\* flight_df = fetch_flight_data(selected_city_code): the decorator's lookup.
CacheLookup ==
    /\ pc = "fetch"
    /\ LET code == CodeFor(selected_city_name) IN
         /\ origin_city_code' = code
         /\ trace' = Append(trace, Event("call", "fetch_flight_data"))
         /\ IF IsLive(cache[code], now)
               THEN /\ flight_df' = cache[code].value
                    /\ pc' = "fetched"
               ELSE /\ flight_df' = flight_df
                    /\ pc' = "body"
    /\ UNCHANGED << OPENAI_API_KEY, now, advances, cache, selected_city_name,
                    button, k, all_flights, received, insights, agg_df,
                    agg_df_sorted_by_count >>

\* The function body up to the loop.
FetchEnter ==
    /\ pc = "body"
    /\ all_flights' = << >>
    /\ received' = << >>
    /\ k' = 1
    /\ pc' = "loop"
    /\ UNCHANGED << OPENAI_API_KEY, now, advances, cache, selected_city_name,
                    button, origin_city_code, flight_df, insights, agg_df,
                    agg_df_sorted_by_count, trace >>

\* except requests.exceptions.RequestException as e: st.error(...); return None
OnRequestException_partial(dest) ==
    /\ trace' = trace \o << Event("GET", << origin_city_code, dest >>),
                             Event("error", << origin_city_code, dest >>) >>
    /\ Return(IF all_flights = << >> THEN None ELSE DataFrame(all_flights))
    /\ UNCHANGED << k, all_flights, received >>

OnRequestException(dest) ==
    /\ trace' = trace \o << Event("GET", << origin_city_code, dest >>),
                             Event("error", << origin_city_code, dest >>) >>
    /\ Return(None)
    /\ UNCHANGED << k, all_flights, received >>

\* A KeyError of flight['...'] is no RequestException: it leaves the function
\* and ends the script run; nothing is stored.
OnKeyError(dest) ==
    /\ trace' = trace \o << Event("GET", << origin_city_code, dest >>),
                             Event("exception", "KeyError") >>
    /\ pc' = "idle"
    /\ UNCHANGED << k, all_flights, received, flight_df, cache >>

\* if 'data' in data and data['data']: for flight in data['data']: append
OnJson(dest, resp) ==
    /\ trace' = Append(trace, Event("GET", << origin_city_code, dest >>))
    /\ all_flights' = IF resp.kind = "data" /\ resp.data # << >>
                         THEN AppendAll(all_flights, resp.data)
                         ELSE all_flights
    /\ received' = received \o resp.data
    /\ k' = k + 1
    /\ UNCHANGED << pc, flight_df, cache >>

\* One turn of: for dest_code in destinations, with the upstream's answer.
Query(resp) ==
    /\ pc = "loop"
    /\ k <= Len(Destinations(origin_city_code))
    /\ LET dest_code == Destinations(origin_city_code)[k] IN
         CASE resp.kind = "RequestException" -> OnRequestException(dest_code)
           [] resp.kind = "KeyError" -> OnKeyError(dest_code)
           [] OTHER -> OnJson(dest_code, resp)
    /\ UNCHANGED << OPENAI_API_KEY, now, advances, selected_city_name, button,
                    origin_city_code, insights, agg_df, agg_df_sorted_by_count >>

\* The route the loop is about to query.
NextRoute ==
    << origin_city_code,
       Destinations(origin_city_code)[
           IF k \in DOMAIN Destinations(origin_city_code) THEN k ELSE 1] >>

\* if not all_flights: return None / return pd.DataFrame(all_flights)
FetchResult(flights) == IF flights = << >> THEN None ELSE DataFrame(flights)

FetchReturn ==
    /\ pc = "loop"
    /\ k > Len(Destinations(origin_city_code))
    /\ Return(FetchResult(all_flights))
    /\ UNCHANGED << OPENAI_API_KEY, now, advances, selected_city_name, button,
                    origin_city_code, k, all_flights, received, insights, agg_df,
                    agg_df_sorted_by_count, trace >>

(***************************************************************************)
(* get_ai_insights                                                         *)
(***************************************************************************)
NO_DATA == << "No data available to generate insights." >>
NOT_CONFIGURED == << "OpenAI API key is not set. Cannot generate AI insights." >>
\* f"An error occurred while generating AI insights: {e}"
ErrorText(e) == << "An error occurred while generating AI insights: ", e >>

\* not OPENAI_API_KEY
NotSet(key) == key = NoneKey \/ key = ""

\* The two early returns: which way get_ai_insights goes for df and the key.
Guard_noKeyCheck(df, key) ==
    IF IsNoneOrEmpty(df) THEN "no_data" ELSE "invoke"

Guard(df, key) ==
    IF IsNoneOrEmpty(df) THEN "no_data"
    ELSE IF NotSet(key) THEN "not_configured"
    ELSE "invoke"

\* What chain.invoke may do: return the model's text, or raise.
ChatOutcomes ==
    { [raised |-> FALSE, value |-> "analysis"],
      [raised |-> TRUE,  value |-> "RateLimitError"],
      [raised |-> TRUE,  value |-> "APIConnectionError"] }

\* insights = get_ai_insights(flight_df): entry and the two guards
GetAiInsights ==
    /\ pc = "insights"
    /\ trace' = Append(trace, Event("call", "get_ai_insights"))
    /\ LET way == Guard(flight_df, OPENAI_API_KEY) IN
         /\ insights' = CASE way = "no_data" -> NO_DATA
                           [] way = "not_configured" -> NOT_CONFIGURED
                           [] OTHER -> << >>
         /\ pc' = IF way = "invoke" THEN "invoke" ELSE "insights_done"
    /\ UNCHANGED << OPENAI_API_KEY, now, advances, cache, selected_city_name,
                    button, origin_city_code, k, all_flights, received,
                    flight_df, agg_df, agg_df_sorted_by_count >>

\* except Exception as e: return f"An error occurred ...: {e}"
OnChatException_propagate(e) ==
    /\ insights' = insights
    /\ trace' = trace \o << Event("chat", "gpt-3.5-turbo"), Event("raised", e),
                             Event("exception", e) >>
    /\ pc' = "idle"

OnChatException(e) ==
    /\ insights' = ErrorText(e)
    /\ trace' = trace \o << Event("chat", "gpt-3.5-turbo"), Event("raised", e) >>
    /\ pc' = "insights_done"

\* response = chain.invoke({...}); return response
OnChatResponse(text) ==
    /\ insights' = << text >>
    /\ trace' = trace \o << Event("chat", "gpt-3.5-turbo"), Event("returned", text) >>
    /\ pc' = "insights_done"

\* The try block: one call of the completion service.
ChainInvoke ==
    /\ pc = "invoke"
    /\ \E out \in ChatOutcomes :
          IF out.raised THEN OnChatException(out.value)
          ELSE OnChatResponse(out.value)
    /\ UNCHANGED << OPENAI_API_KEY, now, advances, cache, selected_city_name,
                    button, origin_city_code, k, all_flights, received,
                    flight_df, agg_df, agg_df_sorted_by_count >>

(***************************************************************************)
(* The aggregation: groupby('Destination').agg(mean, count), sort_values   *)
(***************************************************************************)
RECURSIVE Sum(_)
Sum(s) == IF s = << >> THEN 0 ELSE Head(s) + Sum(Tail(s))

RECURSIVE GCD(_, _)
GCD(a, b) == IF b = 0 THEN a ELSE GCD(b, a % b)

\* 'mean' of a group's prices: the exact quotient sum / count, kept as a
\* fraction << numerator, denominator >> in lowest terms.
Mean_floor(prices) == << Sum(prices) \div Len(prices), 1 >>

Mean(prices) ==
    LET s == Sum(prices)
        n == Len(prices)
        g == GCD(s, n)
    IN  << s \div g, n \div g >>

PricesOf(rows, dest) ==
    LET group == SelectSeq(rows, LAMBDA r : r.Destination = dest)
    IN  [i \in DOMAIN group |-> group[i].Price]

\* flight_df.groupby('Destination').agg(Average_Price=mean, Flight_Count=count)
\* .reset_index(): one row per key.
GroupByAgg(rows) ==
    { [ Destination   |-> dest,
        Average_Price |-> Mean(PricesOf(rows, dest)),
        Flight_Count  |-> Len(PricesOf(rows, dest)) ] :
      dest \in { rows[i].Destination : i \in DOMAIN rows } }

Range(s) == { s[i] : i \in DOMAIN s }

Perms(S) ==
    { s \in [1..Cardinality(S) -> S] : \A i, j \in DOMAIN s : s[i] = s[j] => i = j }

\* a[by] <= b[by]; Average_Price is a fraction, Flight_Count a number
Leq(a, b, by) ==
    IF by = "Average_Price"
      THEN a.Average_Price[1] * b.Average_Price[2] <= b.Average_Price[1] * a.Average_Price[2]
      ELSE a.Flight_Count <= b.Flight_Count

\* df.sort_values(by, ascending=...): the rows in an order sorted by the
\* column.  The default sort is not stable, so rows of equal key may come
\* in any order.
SortValues_ascendingOnly(S, by, ascending) ==
    { s \in Perms(S) : \A i, j \in DOMAIN s : i < j => Leq(s[i], s[j], by) }

SortValues(S, by, ascending) ==
    { s \in Perms(S) :
        \A i, j \in DOMAIN s :
           i < j => IF ascending THEN Leq(s[i], s[j], by) ELSE Leq(s[j], s[i], by) }

(***************************************************************************)
(* The script                                                              *)
(***************************************************************************)
\* The cities the session-level specification selects among.
SelectableNames == { "Sydney", "Melbourne" }

ClockSteps == { 1, TTL - 1 }

\* Time passes while the page is idle and while a fetch waits for the
\* upstream; the rest of a run takes no time worth counting.
AdvanceClock ==
    /\ pc \in { "idle", "loop" }
    /\ advances < MaxAdvances
    /\ \E d \in ClockSteps : now' = now + d
    /\ advances' = advances + 1
    /\ UNCHANGED << OPENAI_API_KEY, cache, pc, selected_city_name, button,
                    origin_city_code, k, all_flights, received, flight_df,
                    insights, agg_df, agg_df_sorted_by_count, trace >>

\* A script run starts: the selectbox and the button are read.  Without the
\* button the run ends in the else branch, st.info.
Rerun ==
    /\ pc = "idle"
    /\ \E name \in SelectableNames, clicked \in BOOLEAN :
          /\ selected_city_name' = name
          /\ button' = clicked
          /\ trace' = IF clicked THEN PageHeader
                       ELSE Append(PageHeader, Event("info", "select a city"))
          /\ pc' = IF clicked THEN "fetch" ELSE "idle"
    /\ origin_city_code' = ""
    /\ k' = 0
    /\ all_flights' = << >>
    /\ received' = << >>
    /\ flight_df' = Unset
    /\ insights' = << >>
    /\ agg_df' = << >>
    /\ agg_df_sorted_by_count' = << >>
    /\ UNCHANGED << OPENAI_API_KEY, now, advances, cache >>

\* if flight_df is None or flight_df.empty: st.warning(...) else: st.header
Branch_always(df) == FALSE

Branch(df) == IsNoneOrEmpty(df)

AfterFetch ==
    /\ pc = "fetched"
    /\ IF Branch(flight_df)
          THEN /\ trace' = Append(trace, Event("warning", selected_city_name))
               /\ pc' = "idle"
          ELSE /\ trace' = Append(trace, Event("header", "AI-Powered Insights Summary"))
               /\ pc' = "insights"
    /\ UNCHANGED << OPENAI_API_KEY, now, advances, cache, selected_city_name,
                    button, origin_city_code, k, all_flights, received,
                    flight_df, insights, agg_df, agg_df_sorted_by_count >>

\* st.markdown(insights); st.header("Visualized Data Insights")
RenderInsights ==
    /\ pc = "insights_done"
    /\ trace' = trace \o << Event("markdown", insights),
                             Event("header", "Visualized Data Insights") >>
    /\ pc' = "aggregate"
    /\ UNCHANGED << OPENAI_API_KEY, now, advances, cache, selected_city_name,
                    button, origin_city_code, k, all_flights, received,
                    flight_df, insights, agg_df, agg_df_sorted_by_count >>

\* agg_df = flight_df.groupby(...).agg(...).reset_index().sort_values('Average_Price')
Aggregate ==
    /\ pc = "aggregate"
    /\ agg_df' \in SortValues(GroupByAgg(flight_df.rows), "Average_Price", TRUE)
    /\ trace' = Append(trace, Event("groupby", "Destination"))
    /\ pc' = "chart_price"
    /\ UNCHANGED << OPENAI_API_KEY, now, advances, cache, selected_city_name,
                    button, origin_city_code, k, all_flights, received,
                    flight_df, insights, agg_df_sorted_by_count >>

\* with col1: st.subheader; st.plotly_chart(fig_price)
ChartPrice ==
    /\ pc = "chart_price"
    /\ trace' = trace \o << Event("subheader", "Average Price by Destination"),
                             Event("plotly_chart", agg_df) >>
    /\ pc' = "chart_count"
    /\ UNCHANGED << OPENAI_API_KEY, now, advances, cache, selected_city_name,
                    button, origin_city_code, k, all_flights, received,
                    flight_df, insights, agg_df, agg_df_sorted_by_count >>

\* with col2: agg_df.sort_values('Flight_Count', ascending=False); st.plotly_chart
ChartCount ==
    /\ pc = "chart_count"
    /\ \E sorted \in SortValues(Range(agg_df), "Flight_Count", FALSE) :
          /\ agg_df_sorted_by_count' = sorted
          /\ trace' = trace \o << Event("subheader", "Route Popularity"),
                                   Event("plotly_chart", sorted) >>
    /\ pc' = "raw"
    /\ UNCHANGED << OPENAI_API_KEY, now, advances, cache, selected_city_name,
                    button, origin_city_code, k, all_flights, received,
                    flight_df, insights, agg_df >>

\* st.header("Raw Data Explorer"); st.dataframe(flight_df)
RawTable ==
    /\ pc = "raw"
    /\ trace' = trace \o << Event("header", "Raw Data Explorer"),
                             Event("dataframe", flight_df.rows) >>
    /\ pc' = "idle"
    /\ UNCHANGED << OPENAI_API_KEY, now, advances, cache, selected_city_name,
                    button, origin_city_code, k, all_flights, received,
                    flight_df, insights, agg_df, agg_df_sorted_by_count >>

(***************************************************************************)
(* The session: the process has started and the page has been loaded once, *)
(* without the button.                                                     *)
(***************************************************************************)
KeyValues == { NoneKey, "", "sk-test" }

Init ==
    /\ OPENAI_API_KEY \in KeyValues
    /\ now = 0
    /\ advances = 0
    /\ cache = [code \in CityCodes |-> NoEntry]
    /\ pc = "idle"
    /\ selected_city_name = "Sydney"
    /\ button = FALSE
    /\ origin_city_code = ""
    /\ k = 0
    /\ all_flights = << >>
    /\ received = << >>
    /\ flight_df = Unset
    /\ insights = << >>
    /\ agg_df = << >>
    /\ agg_df_sorted_by_count = << >>
    /\ trace = Append(PageHeader, Event("info", "select a city"))

SessionQuery ==
    /\ pc = "loop"
    /\ \E resp \in SessionResponses(NextRoute[1], NextRoute[2]) : Query(resp)

Next ==
    \/ AdvanceClock
    \/ Rerun
    \/ CacheLookup
    \/ FetchEnter
    \/ SessionQuery
    \/ FetchReturn
    \/ AfterFetch
    \/ GetAiInsights
    \/ ChainInvoke
    \/ RenderInsights
    \/ Aggregate
    \/ ChartPrice
    \/ ChartCount
    \/ RawTable

Spec == Init /\ [][Next]_vars

(***************************************************************************)
(* fetch_flight_data alone: one call of the function body for any origin   *)
(* of the registry, against any upstream.                                  *)
(***************************************************************************)
InitFetch ==
    /\ OPENAI_API_KEY = "sk-test"
    /\ now = 0
    /\ advances = 0
    /\ cache = [code \in CityCodes |-> NoEntry]
    /\ pc = "body"
    /\ selected_city_name \in CityNames
    /\ button = TRUE
    /\ origin_city_code = CodeFor(selected_city_name)
    /\ k = 0
    /\ all_flights = << >>
    /\ received = << >>
    /\ flight_df = Unset
    /\ insights = << >>
    /\ agg_df = << >>
    /\ agg_df_sorted_by_count = << >>
    /\ trace = Append(PageHeader, Event("call", "fetch_flight_data"))

FunctionQuery ==
    /\ pc = "loop"
    /\ \E resp \in AnyResponses(NextRoute[1], NextRoute[2]) :
          /\ Len(received) + Len(resp.data) <= MaxFlights
          /\ Query(resp)

NextFetch ==
    \/ FetchEnter
    \/ FunctionQuery
    \/ FetchReturn

SpecFetch == InitFetch /\ [][NextFetch]_vars

(***************************************************************************)
(* The aggregation alone, from any non-empty table of up to MaxRows rows.  *)
(***************************************************************************)
TableNames == { "Melbourne", "Brisbane", "Perth" }
TablePrices == { 100, 101, 200 }

TableRows ==
    { FlightRecord(Item("SYD", name, CodeFor(name), price)) :
        name \in TableNames, price \in TablePrices }

Tables == { DataFrame(rows) : rows \in SeqsUpTo(TableRows, MaxRows) \ { << >> } }

InitAgg ==
    /\ OPENAI_API_KEY = "sk-test"
    /\ now = 0
    /\ advances = 0
    /\ cache = [code \in CityCodes |-> NoEntry]
    /\ pc = "aggregate"
    /\ selected_city_name = "Sydney"
    /\ button = TRUE
    /\ origin_city_code = "SYD"
    /\ k = 0
    /\ all_flights = << >>
    /\ received = << >>
    /\ flight_df \in Tables
    /\ insights = << >>
    /\ agg_df = << >>
    /\ agg_df_sorted_by_count = << >>
    /\ trace = << >>

NextAgg ==
    \/ Aggregate
    \/ ChartPrice
    \/ ChartCount
    \/ RawTable

SpecAgg == InitAgg /\ [][NextAgg]_vars

(***************************************************************************)
(* get_ai_insights alone: called, and called again, with any table         *)
(* (absent and empty included) under any credential.                       *)
(***************************************************************************)
InsightRows ==
    { FlightRecord(Item("SYD", "Melbourne", "MEL", price)) : price \in { 100, 200 } }

InsightTables ==
    { DataFrame(rows) : rows \in SeqsUpTo(InsightRows, MaxRows) \ { << >> } }

InitInsight ==
    /\ OPENAI_API_KEY \in KeyValues
    /\ now = 0
    /\ advances = 0
    /\ cache = [code \in CityCodes |-> NoEntry]
    /\ pc = "insights"
    /\ selected_city_name = "Sydney"
    /\ button = TRUE
    /\ origin_city_code = "SYD"
    /\ k = 0
    /\ all_flights = << >>
    /\ received = << >>
    /\ flight_df \in { None, DataFrame(<< >>) } \cup InsightTables
    /\ insights = << >>
    /\ agg_df = << >>
    /\ agg_df_sorted_by_count = << >>
    /\ trace = << >>

Count(log, ev, arg) ==
    Cardinality({ i \in DOMAIN log : log[i].ev = ev /\ log[i].arg = arg })

\* The caller calls get_ai_insights once more with the same table.
InvokeAgain ==
    /\ pc = "insights_done"
    /\ Count(trace, "call", "get_ai_insights") < MaxInvocations
    /\ pc' = "insights"
    /\ insights' = << >>
    /\ UNCHANGED << OPENAI_API_KEY, now, advances, cache, selected_city_name,
                    button, origin_city_code, k, all_flights, received,
                    flight_df, agg_df, agg_df_sorted_by_count, trace >>

NextInsight ==
    \/ GetAiInsights
    \/ ChainInvoke
    \/ InvokeAgain

SpecInsight == InitInsight /\ [][NextInsight]_vars

\* The function is sequential code: once entered, it runs on.
SpecInsightFair ==
    SpecInsight /\ WF_vars(GetAiInsights) /\ WF_vars(ChainInvoke)

(***************************************************************************)
(* Properties.  Helpers read the run's log.                                *)
(***************************************************************************)
Events(log, ev) == SelectSeq(log, LAMBDA e : e.ev = ev)

Args(log, ev) == [i \in DOMAIN Events(log, ev) |-> Events(log, ev)[i].arg]

\* The first n routes fetch_flight_data queries for an origin, in order.
Routes(origin, n) == [i \in 1..n |-> << origin, Destinations(origin)[i] >>]

(* C1: fail-fast fetch.  For every origin and every k in 1..7, if the k-th
   per-destination query raised a transport/HTTP error, the fetch has
   returned None, whatever queries 1..k-1 had collected, and the requests
   issued in the run are exactly those for destinations 1..k: none for
   k+1..7. *)
C1_FailFast ==
    \A n \in 1..7 :
        Count(trace, "error", << origin_city_code, Destinations(origin_city_code)[n] >>) > 0
        => /\ pc = "fetched"
           /\ flight_df = None
           /\ Args(trace, "GET") = Routes(origin_city_code, n)
           /\ Args(trace, "error") = << Routes(origin_city_code, n)[n] >>

\* The third of the seven queries failed after the first two had brought
\* two records.
C1_Witness ==
    /\ pc = "fetched"
    /\ Args(trace, "error") = << << origin_city_code, Destinations(origin_city_code)[3] >> >>
    /\ Len(all_flights) = 2
    /\ all_flights[1].DestinationCode # all_flights[2].DestinationCode
    /\ flight_df = None

(* C2: every record of the table fetch_flight_data returns has a destination
   code that belongs to the City Registry and differs from the queried
   origin code, for every origin and every upstream response. *)
C2_DestinationInRegistry ==
    (pc = "fetched" /\ flight_df.kind = "DataFrame")
    => \A i \in DOMAIN flight_df.rows :
          /\ flight_df.rows[i].DestinationCode \in CityCodes
          /\ flight_df.rows[i].DestinationCode # origin_city_code

(* C4: the result of fetch_flight_data is None or a non-empty table, never
   an empty one; when no query failed, all seven were issued, the result is
   None exactly when every response carried zero records, and otherwise it
   holds exactly the records of all responses in query order. *)
C4_ResultShape ==
    pc = "fetched"
    => /\ \/ flight_df = None
          \/ flight_df.kind = "DataFrame" /\ flight_df.rows # << >>
       /\ Events(trace, "error") = << >>
          => /\ Args(trace, "GET") = Routes(origin_city_code, 7)
             /\ (flight_df = None) <=> (received = << >>)
             /\ received # << >>
                => flight_df.rows = [i \in DOMAIN received |-> FlightRecord(received[i])]

\* No query failed, and two different responses brought one record each.
C4_Witness ==
    /\ pc = "fetched"
    /\ Events(trace, "error") = << >>
    /\ flight_df.kind = "DataFrame"
    /\ Len(flight_df.rows) = 2
    /\ flight_df.rows[1].DestinationCode # flight_df.rows[2].DestinationCode

\* The rows of a table that go to one destination, and their prices added up.
RowsTo(rows, dest) == { i \in DOMAIN rows : rows[i].Destination = dest }

RECURSIVE TotalPrice(_, _)
TotalPrice(rows, idx) ==
    IF idx = {} THEN 0
    ELSE LET i == CHOOSE j \in idx : TRUE
         IN  rows[i].Price + TotalPrice(rows, idx \ {i})

(* C5: aggregation over a non-empty table yields exactly one aggregate per
   distinct destination city name of the table and none for any other name;
   its Flight_Count is the number of records with that destination and its
   Average_Price is their arithmetic mean: Average_Price * Flight_Count is
   the sum of their prices. *)
C5_Aggregates ==
    pc \in { "chart_price", "chart_count", "raw", "idle" }
    => LET rows == flight_df.rows IN
       /\ { agg_df[i].Destination : i \in DOMAIN agg_df }
             = { rows[i].Destination : i \in DOMAIN rows }
       /\ \A i, j \in DOMAIN agg_df :
             agg_df[i].Destination = agg_df[j].Destination => i = j
       /\ \A i \in DOMAIN agg_df :
             LET idx == RowsTo(rows, agg_df[i].Destination) IN
             /\ agg_df[i].Flight_Count = Cardinality(idx)
             /\ agg_df[i].Average_Price[2] > 0
             /\ agg_df[i].Average_Price[1] * agg_df[i].Flight_Count
                   = TotalPrice(rows, idx) * agg_df[i].Average_Price[2]

\* Two destinations, one of them with two fares whose mean is no integer.
C5_Witness ==
    /\ pc = "chart_price"
    /\ Len(flight_df.rows) = 3
    /\ Len(agg_df) = 2
    /\ \E i \in DOMAIN agg_df :
          agg_df[i].Flight_Count = 2 /\ agg_df[i].Average_Price = << 201, 2 >>

(* C6: for a non-empty table the price view is non-decreasing in
   Average_Price, the popularity view is non-increasing in Flight_Count,
   and the two are permutations of the same aggregate rows: the popularity
   view is the price view sorted again. *)
C6_Orderings ==
    /\ pc \in { "chart_price", "chart_count", "raw", "idle" }
       => \A i, j \in DOMAIN agg_df :
             i < j => agg_df[i].Average_Price[1] * agg_df[j].Average_Price[2]
                        <= agg_df[j].Average_Price[1] * agg_df[i].Average_Price[2]
    /\ pc \in { "raw", "idle" }
       => /\ \A i, j \in DOMAIN agg_df_sorted_by_count :
                i < j => agg_df_sorted_by_count[i].Flight_Count
                           >= agg_df_sorted_by_count[j].Flight_Count
          /\ Len(agg_df_sorted_by_count) = Len(agg_df)
          /\ Range(agg_df_sorted_by_count) = Range(agg_df)
          /\ Cardinality(Range(agg_df)) = Len(agg_df)

\* Two destinations whose order by price is not their order by count.
C6_Witness ==
    /\ pc = "idle"
    /\ Len(agg_df) = 2
    /\ agg_df[1].Flight_Count < agg_df[2].Flight_Count
    /\ agg_df[1].Average_Price # agg_df[2].Average_Price
    /\ agg_df_sorted_by_count = << agg_df[2], agg_df[1] >>

(* C7: get_ai_insights calls the completion service only if the table is
   non-empty and a credential is configured.  For an absent or empty table
   it returns the fixed no-data message without a call, whether or not a
   credential is set; for a non-empty table without a credential it returns
   the fixed not-configured message without a call. *)
C7_GuardedCall ==
    /\ (pc = "invoke" \/ Events(trace, "chat") # << >>)
       => /\ flight_df.kind = "DataFrame" /\ flight_df.rows # << >>
          /\ OPENAI_API_KEY \notin { NoneKey, "" }
    /\ pc = "insights_done"
       => /\ (flight_df.kind = "None" \/ flight_df.rows = << >>)
             => /\ insights = << "No data available to generate insights." >>
                /\ Events(trace, "chat") = << >>
          /\ (flight_df.kind = "DataFrame" /\ flight_df.rows # << >>
                /\ OPENAI_API_KEY \in { NoneKey, "" })
             => /\ insights = << "OpenAI API key is not set. Cannot generate AI insights." >>
                /\ Events(trace, "chat") = << >>

\* An empty table under a configured credential: the no-data message.
C7_Witness ==
    /\ pc = "insights_done"
    /\ flight_df = DataFrame(<< >>)
    /\ OPENAI_API_KEY = "sk-test"
    /\ insights = NO_DATA
    /\ Events(trace, "chat") = << >>

\* What C9 asks of every state of get_ai_insights.
C9_State ==
    /\ pc \in { "insights", "invoke", "insights_done" }
    /\ Events(trace, "exception") = << >>
    /\ Len(Events(trace, "chat")) <= Len(Events(trace, "call"))
    /\ pc = "insights_done"
       => /\ insights # << >>
          /\ trace[Len(trace)].ev = "raised"
             => insights = << "An error occurred while generating AI insights: ",
                              trace[Len(trace)].arg >>
          /\ (flight_df.kind = "DataFrame" /\ flight_df.rows # << >>
                /\ OPENAI_API_KEY \notin { NoneKey, "" })
             => Len(Events(trace, "chat")) = Len(Events(trace, "call"))

(* C9: every invocation of get_ai_insights ends by returning a text and
   never lets an exception out: when the completion call raises, the result
   is the message that embeds the error detail; an invocation makes at most
   one completion call, and each invocation with a non-empty table and a
   credential makes a call of its own, a repeated one included. *)
C9_AlwaysReturnsText ==
    /\ []C9_State
    /\ (pc = "insights") ~> (pc = "insights_done")

\* The second invocation with the same table made its own call, which raised.
C9_Witness ==
    /\ pc = "insights_done"
    /\ Len(Events(trace, "call")) = 2
    /\ Len(Events(trace, "chat")) = 2
    /\ trace[Len(trace)] = Event("raised", "RateLimitError")
    /\ insights = ErrorText("RateLimitError")

\* The cache entry a request for the selected city looks up.
Requested == cache[CodeFor(selected_city_name)]

\* A return of the function body stores its value under the origin for 3600 s.
StoredOnReturn ==
    (pc = "loop" /\ pc' = "fetched")
    => /\ cache'[origin_city_code]
            = [present |-> TRUE, value |-> flight_df', expires |-> now + 3600]
       /\ \A code \in CityCodes \ { origin_city_code } : cache'[code] = cache[code]

\* A request that finds an unexpired table of its origin returns it and
\* sends nothing upstream.
TableHit ==
    (pc = "fetch" /\ Requested.present /\ Requested.value.kind = "DataFrame"
       /\ now < Requested.expires)
    => /\ pc' = "fetched"
       /\ flight_df' = Requested.value
       /\ cache' = cache
       /\ Events(trace', "GET") = << >>

\* A request at or after the expiry of its origin's table runs the body.
ExpiredMiss ==
    (pc = "fetch" /\ Requested.present /\ Requested.value.kind = "DataFrame"
       /\ now >= Requested.expires)
    => pc' = "body" /\ flight_df' = Unset

\* The body never ends without having sent a request.
BodyContactsUpstream ==
    (pc = "loop" /\ pc' # "loop") => Events(trace', "GET") # << >>

(* C3, as stated: after a fetch for origin X returned a table at time t,
   every request for X before t + 3600 returns that table and issues no
   upstream query; a request for a different origin, or for X at or after
   expiry, is not served from X's entry and contacts the upstream again. *)
C3_AsStated ==
    [][ /\ StoredOnReturn
        /\ TableHit
        /\ ExpiredMiss
        /\ BodyContactsUpstream
        /\ (pc = "fetch"
              /\ \E x \in CityCodes \ { CodeFor(selected_city_name) } :
                    /\ cache[x].present
                    /\ cache[x].value.kind = "DataFrame"
                    /\ now < cache[x].expires)
           => pc' = "body" ]_vars

(* C3, amended: a request for a different origin is never served from X's
   entry; it contacts the upstream unless that origin has an unexpired
   entry of its own.  The rest is as stated. *)
C3_FetchCache ==
    [][ /\ StoredOnReturn
        /\ TableHit
        /\ ExpiredMiss
        /\ BodyContactsUpstream
        /\ (pc = "fetch" /\ ~(Requested.present /\ now < Requested.expires))
           => pc' = "body" /\ flight_df' = Unset ]_vars

\* A request served from the cache in the last second of the entry's hour.
C3_Witness ==
    /\ pc = "fetched"
    /\ flight_df.kind = "DataFrame"
    /\ Events(trace, "GET") = << >>
    /\ cache[origin_city_code].value = flight_df
    /\ cache[origin_city_code].expires = now + 1

\* The page elements and calls of a run after the header, without the
\* traffic of the two services.
RunBody ==
    SelectSeq(SubSeq(trace, Len(PageHeader) + 1, Len(trace)),
              LAMBDA e : e.ev \notin { "GET", "error", "chat", "raised", "returned" })

Kinds(log) == [i \in DOMAIN log |-> log[i].ev]

SameLog(a, b) == Kinds(a) = Kinds(b) /\ a = b

\* What a run with data shows after the fetch, in order.
FullPage ==
    << Event("call", "fetch_flight_data"),
       Event("header", "AI-Powered Insights Summary"),
       Event("call", "get_ai_insights"),
       Event("markdown", insights),
       Event("header", "Visualized Data Insights"),
       Event("groupby", "Destination"),
       Event("subheader", "Average Price by Destination"),
       Event("plotly_chart", agg_df),
       Event("subheader", "Route Popularity"),
       Event("plotly_chart", agg_df_sorted_by_count),
       Event("header", "Raw Data Explorer"),
       Event("dataframe", flight_df.rows) >>

(* C8: on activation, if the fetch result is absent or empty the page shows
   a warning naming the selected city and the run stops: no call of the
   Insight Generator, no aggregation, no chart, no table.  Otherwise the
   Insight Generator is called and its text rendered before the
   aggregation, the two charts and finally the raw table.  Without
   activation only the static prompt is shown and neither the Fetcher nor
   the Insight Generator is called. *)
C8_Presentation ==
    /\ SubSeq(trace, 1, Len(PageHeader)) = PageHeader
    /\ pc \in { "insights", "invoke", "insights_done", "aggregate",
                 "chart_price", "chart_count", "raw" }
       => button /\ flight_df.kind = "DataFrame" /\ flight_df.rows # << >>
    /\ (pc = "idle" /\ ~button)
       => /\ SameLog(RunBody, << Event("info", "select a city") >>)
          /\ Events(trace, "GET") = << >>
          /\ Events(trace, "chat") = << >>
    /\ (pc = "idle" /\ button /\ Events(trace, "exception") = << >>)
       => IF flight_df.kind # "DataFrame" \/ flight_df.rows = << >>
            THEN /\ SameLog(RunBody, << Event("call", "fetch_flight_data"),
                                         Event("warning", selected_city_name) >>)
                 /\ insights = << >>
                 /\ agg_df = << >>
                 /\ agg_df_sorted_by_count = << >>
                 /\ Events(trace, "chat") = << >>
            ELSE /\ SameLog(RunBody, FullPage)
                 /\ insights # << >>

\* A run with data has rendered everything, two different charts included.
C8_Witness ==
    /\ pc = "idle"
    /\ button
    /\ Len(flight_df.rows) = 2
    /\ trace[Len(trace)] = Event("dataframe", flight_df.rows)
    /\ Len(agg_df) = 2

(* C10: the memoization also keeps absent outcomes.  After a fetch for
   origin X returned None, because a query failed or because every query
   returned zero records, every activation for X within 3600 seconds gets
   None again without any upstream query, and the page shows the warning. *)
C10_NoneIsCached ==
    [][ /\ (pc = "loop" /\ pc' = "fetched" /\ flight_df' = None)
           => cache'[origin_city_code]
                = [present |-> TRUE, value |-> None, expires |-> now + 3600]
        /\ (pc = "fetch" /\ Requested.present /\ Requested.value = None
              /\ now < Requested.expires)
           => /\ pc' = "fetched"
              /\ flight_df' = None
              /\ cache' = cache
              /\ Events(trace', "GET") = << >>
        /\ (pc = "fetched" /\ flight_df = None)
           => /\ pc' = "idle"
              /\ trace' = Append(trace, Event("warning", selected_city_name)) ]_vars

\* A retry in the last second of the hour: None from the cache, no request,
\* the warning.
C10_Witness ==
    /\ pc = "idle"
    /\ button
    /\ flight_df = None
    /\ Events(trace, "GET") = << >>
    /\ trace[Len(trace)] = Event("warning", selected_city_name)
    /\ cache[origin_city_code].expires = now + 1

=============================================================================
